---- MODULE Spec2Model ----
(***************************************************************************)
(* Model of the command-line parser of src/cli/cli_parser.h: CliArg,       *)
(* CliSubcommand, CliParserResult and CliParser.                           *)
(*                                                                         *)
(* A C string (char*, std::string) is a sequence of one-character strings, *)
(* so that argv[i][0] and argv[i] + 1 are what they are in the code.  A    *)
(* std::string built by concatenation with a literal (the error messages)  *)
(* is the record of its pieces [pre, name, post].  Pointers to CliArg and  *)
(* CliSubcommand objects are object identities (small integers), nullptr   *)
(* is 0.  argv here is the argument vector without the program name, so    *)
(* the code's argc is Len(argv) + 1 in parse.                              *)
(***************************************************************************)
EXTENDS Integers, Sequences, FiniteSets, TLC

\* longest command line (number of words after the program name)
MaxLen == 3
\* number of parse calls made on the one parser
MaxCalls == 3

nullptr == 0

\* the CliArg objects the embedding application constructs
ArgIds == {1, 2, 3}
\* the CliSubcommand objects the embedding application constructs
SubIds == {1}

\* the words a command line is made of: two flags, a word that is a value, a
\* positional or the subcommand's name, and the empty word
Tokens == { <<"-", "o">>, <<"-", "v">>, <<"s">>, <<>> }

RECURSIVE SeqsUpTo(_)
SeqsUpTo(n) ==
    IF n = 0 THEN { <<>> }
    ELSE LET shorter == SeqsUpTo(n - 1)
         IN  shorter \cup { Append(s, t) : s \in { q \in shorter : Len(q) = n - 1 }, t \in Tokens }

CommandLines == SeqsUpTo(MaxLen)

\* std::string values
EmptyString == [pre |-> "", name |-> <<>>, post |-> ""]
Literal(s) == [pre |-> s, name |-> <<>>, post |-> ""]
IsEmpty(s) == s.pre = "" /\ s.name = <<>> /\ s.post = ""

\* struct CliArg as constructed: param is default-constructed (empty)
CliArg(name, description, hasParam, required) ==
    [name |-> name, description |-> description, param |-> <<>>,
     hasParam |-> hasParam, required |-> required]

\* class CliSubcommand as constructed: no arguments yet
CliSubcommand(name) == [name |-> name, args |-> <<>>]

\* struct CliParserResult as constructed
CliParserResult == [errorMessage |-> EmptyString, args |-> <<>>, subcommand |-> nullptr]

VARIABLES
    cliArg,       \* the CliArg objects, by identity
    cliSub,       \* the CliSubcommand objects, by identity
    subcommands,  \* CliParser::subcommands
    args,         \* CliParser::args
    topArgs,      \* history: the arguments handed to CliParser::addArg, in call order
    calls,        \* number of parse calls made so far
    pc,           \* the caller: "idle", or "returned" while it holds a result
    argv,         \* the command line of the last parse call
    ret,          \* its return value
    result,       \* the CliParserResult it filled
    visited,      \* the values of i at which the scan loop body ran in that call
    prev          \* what the caller saw of the call before, while it still holds that too

vars == <<cliArg, cliSub, subcommands, args, topArgs, calls, pc, argv, ret, result, visited, prev>>

StartsWithDash(tok) == Len(tok) > 0 /\ tok[1] = "-"

\* CliParser::getSubcommand
RECURSIVE getSubcommandFrom(_, _, _, _)
getSubcommandFrom(subs, objs, name, k) ==
    IF k > Len(subs) THEN nullptr
    ELSE IF objs[subs[k]].name = name THEN subs[k]
    ELSE getSubcommandFrom(subs, objs, name, k + 1)

getSubcommand(subs, objs, name) == getSubcommandFrom(subs, objs, name, 1)

\* the loop of CliParser::getArgument and CliParserResult::getArgument
RECURSIVE firstNamed(_, _, _, _)
firstNamed(list, objs, name, k) ==
    IF k > Len(list) THEN nullptr
    ELSE IF objs[list[k]].name = name THEN list[k]
    ELSE firstNamed(list, objs, name, k + 1)

\* CliParser::getArgument
getArgument(pargs, objs, name) == firstNamed(pargs, objs, name, 1)

\* CliParserResult::getArgument
resultGetArgument(res, objs, name) == firstNamed(res.args, objs, name, 1)

\* CliParser::processFlag
processFlag(pargs, objs, name, res) ==
    LET arg == getArgument(pargs, objs, name)
    IN  IF arg # nullptr
        THEN IF objs[arg].hasParam
             THEN [ok |-> FALSE, objs |-> objs,
                   result |-> [res EXCEPT !.errorMessage =
                       [pre |-> "Argument ", name |-> name, post |-> " must have a parameter"]]]
             ELSE [ok |-> TRUE, objs |-> objs,
                   result |-> [res EXCEPT !.args = Append(@, arg)]]
        ELSE [ok |-> FALSE, objs |-> objs,
              result |-> [res EXCEPT !.errorMessage =
                  [pre |-> "Unkown argument ", name |-> name, post |-> ""]]]

\* processArgument with the matched spec inserted at the front of result.args
processArgument_pushFront(pargs, objs, name, value, res) ==
    LET arg == getArgument(pargs, objs, name)
    IN  IF arg # nullptr
        THEN IF ~objs[arg].hasParam
             THEN [ok |-> FALSE, objs |-> objs,
                   result |-> [res EXCEPT !.errorMessage =
                       [pre |-> "Argument ", name |-> name, post |-> " can not have a parameter"]]]
             ELSE [ok |-> TRUE, objs |-> [objs EXCEPT ![arg].param = value],
                   result |-> [res EXCEPT !.args = <<arg>> \o @]]
        ELSE [ok |-> FALSE, objs |-> objs,
              result |-> [res EXCEPT !.errorMessage =
                  [pre |-> "Unkown argument ", name |-> name, post |-> ""]]]

\* processArgument without the test of hasParam
processArgument_noParamCheck(pargs, objs, name, value, res) ==
    LET arg == getArgument(pargs, objs, name)
    IN  IF arg # nullptr
        THEN [ok |-> TRUE, objs |-> [objs EXCEPT ![arg].param = value],
              result |-> [res EXCEPT !.args = Append(@, arg)]]
        ELSE [ok |-> FALSE, objs |-> objs,
              result |-> [res EXCEPT !.errorMessage =
                  [pre |-> "Unkown argument ", name |-> name, post |-> ""]]]

\* CliParser::processArgument
processArgument(pargs, objs, name, value, res) ==
    LET arg == getArgument(pargs, objs, name)
    IN  IF arg # nullptr
        THEN IF ~objs[arg].hasParam
             THEN [ok |-> FALSE, objs |-> objs,
                   result |-> [res EXCEPT !.errorMessage =
                       [pre |-> "Argument ", name |-> name, post |-> " can not have a parameter"]]]
             ELSE [ok |-> TRUE, objs |-> [objs EXCEPT ![arg].param = value],
                   result |-> [res EXCEPT !.args = Append(@, arg)]]
        ELSE [ok |-> FALSE, objs |-> objs,
              result |-> [res EXCEPT !.errorMessage =
                  [pre |-> "Unkown argument ", name |-> name, post |-> ""]]]

RECURSIVE checkRequired(_, _, _, _)
\* the required check with the test of required inverted
checkRequired_inverted(pargs, objs, res, k) ==
    IF k > Len(pargs) THEN [ok |-> TRUE, result |-> res]
    ELSE IF objs[pargs[k]].required THEN checkRequired(pargs, objs, res, k + 1)
    ELSE IF resultGetArgument(res, objs, objs[pargs[k]].name) = nullptr
         THEN [ok |-> FALSE,
               result |-> [res EXCEPT !.errorMessage =
                   [pre |-> "Missing required argument: ", name |-> objs[pargs[k]].name, post |-> ""]]]
         ELSE checkRequired(pargs, objs, res, k + 1)

\* the required check at the end of CliParser::processArguments
checkRequired(pargs, objs, res, k) ==
    IF k > Len(pargs) THEN [ok |-> TRUE, result |-> res]
    ELSE IF ~objs[pargs[k]].required THEN checkRequired(pargs, objs, res, k + 1)
    ELSE IF resultGetArgument(res, objs, objs[pargs[k]].name) = nullptr
         THEN [ok |-> FALSE,
               result |-> [res EXCEPT !.errorMessage =
                   [pre |-> "Missing required argument: ", name |-> objs[pargs[k]].name, post |-> ""]]]
         ELSE checkRequired(pargs, objs, res, k + 1)

RECURSIVE scanLoop(_, _, _, _, _, _)
\* the scan loop taking the next word as the value whatever it starts with
scanLoop_swallow(pargs, av, i, objs, res, seen) ==
    LET argc == Len(av)
    IN  IF ~(i < argc)
        THEN LET c == checkRequired(pargs, objs, res, 1)
             IN  [ret |-> c.ok, result |-> c.result, objs |-> objs, visited |-> seen]
        ELSE IF i + 2 <= argc /\ StartsWithDash(av[i + 1])
        THEN LET r == processArgument(pargs, objs, Tail(av[i + 1]), av[i + 2], res)
             IN  IF ~r.ok
                 THEN [ret |-> FALSE, result |-> r.result, objs |-> r.objs,
                       visited |-> Append(seen, i)]
                 ELSE scanLoop(pargs, av, i + 2, r.objs, r.result, Append(seen, i))
        ELSE IF StartsWithDash(av[i + 1])
        THEN LET r == processFlag(pargs, objs, Tail(av[i + 1]), res)
             IN  IF ~r.ok
                 THEN [ret |-> FALSE, result |-> r.result, objs |-> r.objs,
                       visited |-> Append(seen, i)]
                 ELSE scanLoop(pargs, av, i + 1, r.objs, r.result, Append(seen, i))
        ELSE [ret |-> FALSE, objs |-> objs, visited |-> Append(seen, i),
              result |-> [res EXCEPT !.errorMessage = Literal("Weird input")]]

\* the scan loop skipping a word that does not start with '-' as a positional
scanLoop_positional(pargs, av, i, objs, res, seen) ==
    LET argc == Len(av)
    IN  IF ~(i < argc)
        THEN LET c == checkRequired(pargs, objs, res, 1)
             IN  [ret |-> c.ok, result |-> c.result, objs |-> objs, visited |-> seen]
        ELSE IF i + 2 <= argc /\ StartsWithDash(av[i + 1]) /\ ~StartsWithDash(av[i + 2])
        THEN LET r == processArgument(pargs, objs, Tail(av[i + 1]), av[i + 2], res)
             IN  IF ~r.ok
                 THEN [ret |-> FALSE, result |-> r.result, objs |-> r.objs,
                       visited |-> Append(seen, i)]
                 ELSE scanLoop(pargs, av, i + 2, r.objs, r.result, Append(seen, i))
        ELSE IF StartsWithDash(av[i + 1])
        THEN LET r == processFlag(pargs, objs, Tail(av[i + 1]), res)
             IN  IF ~r.ok
                 THEN [ret |-> FALSE, result |-> r.result, objs |-> r.objs,
                       visited |-> Append(seen, i)]
                 ELSE scanLoop(pargs, av, i + 1, r.objs, r.result, Append(seen, i))
        ELSE scanLoop(pargs, av, i + 1, objs, res, Append(seen, i))

\* the scan loop of CliParser::processArguments, from index i (0-based as in the code)
scanLoop(pargs, av, i, objs, res, seen) ==
    LET argc == Len(av)
    IN  IF ~(i < argc)
        THEN LET c == checkRequired(pargs, objs, res, 1)
             IN  [ret |-> c.ok, result |-> c.result, objs |-> objs, visited |-> seen]
        ELSE IF i + 2 <= argc /\ StartsWithDash(av[i + 1]) /\ ~StartsWithDash(av[i + 2])
        THEN LET r == processArgument(pargs, objs, Tail(av[i + 1]), av[i + 2], res)
             IN  IF ~r.ok
                 THEN [ret |-> FALSE, result |-> r.result, objs |-> r.objs,
                       visited |-> Append(seen, i)]
                 ELSE scanLoop(pargs, av, i + 2, r.objs, r.result, Append(seen, i))
        ELSE IF StartsWithDash(av[i + 1])
        THEN LET r == processFlag(pargs, objs, Tail(av[i + 1]), res)
             IN  IF ~r.ok
                 THEN [ret |-> FALSE, result |-> r.result, objs |-> r.objs,
                       visited |-> Append(seen, i)]
                 ELSE scanLoop(pargs, av, i + 1, r.objs, r.result, Append(seen, i))
        ELSE [ret |-> FALSE, objs |-> objs, visited |-> Append(seen, i),
              result |-> [res EXCEPT !.errorMessage = Literal("Weird input")]]

\* processArguments clearing the values of the scope's specs before the scan
processArguments_resetParams(pargs, av, objs, res) ==
    LET cleared == [a \in DOMAIN objs |->
                      IF \E k \in 1..Len(pargs) : pargs[k] = a
                      THEN [objs[a] EXCEPT !.param = <<>>] ELSE objs[a]]
        r == scanLoop(pargs, av, 0, cleared, res, <<>>)
    IN  [ret |-> r.ret, result |-> r.result, objs |-> r.objs, visited |-> r.visited,
         args |-> pargs]

\* CliParser::processArguments; the parser's args are not changed by it
processArguments(pargs, av, objs, res) ==
    LET r == scanLoop(pargs, av, 0, objs, res, <<>>)
    IN  [ret |-> r.ret, result |-> r.result, objs |-> r.objs, visited |-> r.visited,
         args |-> pargs]

\* processSubcommand without args.clear()
processSubcommand_noClear(pargs, av, objs, subObjs, res) ==
    LET cmd == res.subcommand
        inserted == pargs \o subObjs[cmd].args
    IN  processArguments(inserted, av, objs, res)

\* processSubcommand replacing the parser's args only after the scan
processSubcommand_swapAfter(pargs, av, objs, subObjs, res) ==
    LET cmd == res.subcommand
        r == processArguments(pargs, av, objs, res)
    IN  [r EXCEPT !.args = subObjs[cmd].args]

\* CliParser::processSubcommand: the parser's args become a copy of cmd->args
processSubcommand(pargs, av, objs, subObjs, res) ==
    LET cmd == res.subcommand
        cleared == <<>>
        inserted == cleared \o subObjs[cmd].args
    IN  processArguments(inserted, av, objs, res)

\* parse returning false for an empty command line without a message
parse_silentNoArgs(av, res, pargs, subs, subObjs, objs) ==
    IF Len(av) + 1 < 2
    THEN [ret |-> FALSE, result |-> res, objs |-> objs, visited |-> <<>>, args |-> pargs]
    ELSE LET subcommand == getSubcommand(subs, subObjs, av[1])
         IN  IF subcommand # nullptr
             THEN processSubcommand(pargs, Tail(av), objs, subObjs,
                                    [res EXCEPT !.subcommand = subcommand])
             ELSE processArguments(pargs, av, objs, res)

\* CliParser::parse; av is argv + 1 of the code, so the code's argc is Len(av) + 1
parse(av, res, pargs, subs, subObjs, objs) ==
    IF Len(av) + 1 < 2
    THEN [ret |-> FALSE, result |-> [res EXCEPT !.errorMessage = Literal("No args")],
          objs |-> objs, visited |-> <<>>, args |-> pargs]
    ELSE LET subcommand == getSubcommand(subs, subObjs, av[1])
         IN  IF subcommand # nullptr
             THEN processSubcommand(pargs, Tail(av), objs, subObjs,
                                    [res EXCEPT !.subcommand = subcommand])
             ELSE processArguments(pargs, av, objs, res)

(***************************************************************************)
(* The state machine.  The embedding application constructs its CliArg and *)
(* CliSubcommand objects, registers them, and then calls parse, each time  *)
(* with a newly constructed CliParserResult.  It either destroys a result  *)
(* before the next call, or keeps it to repeat the same command line and   *)
(* compare the two results.                                                *)
(***************************************************************************)

Names(list, objs) == { objs[list[k]].name : k \in 1..Len(list) }

\* the values the matched specs of a result carry, as the caller reads them
Values(res, objs) == [k \in 1..Len(res.args) |-> objs[res.args[k]].param]

NoCall == [argv |-> <<>>, ret |-> FALSE, result |-> CliParserResult, values |-> <<>>, made |-> FALSE]

Init ==
    /\ \E req1 \in BOOLEAN, req2 \in BOOLEAN :
         cliArg = [a \in ArgIds |->
                     CASE a = 1 -> CliArg(<<"o">>, "output", TRUE, req1)
                       [] a = 2 -> CliArg(<<"v">>, "verbose", FALSE, req2)
                       [] OTHER -> CliArg(<<"o">>, "overwrite", FALSE, TRUE)]
    /\ cliSub = [s \in SubIds |-> CliSubcommand(<<"s">>)]
    /\ subcommands = <<>>
    /\ args = <<>>
    /\ topArgs = <<>>
    /\ calls = 0
    /\ pc = "idle"
    /\ argv = <<>>
    /\ ret = FALSE
    /\ result = CliParserResult
    /\ visited = <<>>
    /\ prev = NoCall

\* CliParser::addArg, during setup; names stay unique within the scope
AddArg(a) ==
    /\ calls = 0
    /\ cliArg[a].name \notin Names(args, cliArg)
    /\ args' = Append(args, a)
    /\ topArgs' = Append(topArgs, a)
    /\ UNCHANGED <<cliArg, cliSub, subcommands, calls, pc, argv, ret, result, visited, prev>>

\* CliSubcommand::addArg, during setup; names stay unique within the scope
SubAddArg(s, a) ==
    /\ calls = 0
    /\ cliArg[a].name \notin Names(cliSub[s].args, cliArg)
    /\ cliSub' = [cliSub EXCEPT ![s].args = Append(@, a)]
    /\ UNCHANGED <<cliArg, subcommands, args, topArgs, calls, pc, argv, ret, result, visited, prev>>

\* CliParser::addSubcommand, during setup; subcommand names stay unique
AddSubcommand(s) ==
    /\ calls = 0
    /\ \A k \in 1..Len(subcommands) : cliSub[subcommands[k]].name # cliSub[s].name
    /\ subcommands' = Append(subcommands, s)
    /\ UNCHANGED <<cliArg, cliSub, args, topArgs, calls, pc, argv, ret, result, visited, prev>>

\* one call of CliParser::parse with a newly constructed result
Parse(av) ==
    /\ calls < MaxCalls
    /\ pc = "returned" => (av = argv /\ ~prev.made)
    /\ LET r == parse(av, CliParserResult, args, subcommands, cliSub, cliArg)
       IN  /\ ret' = r.ret
           /\ result' = r.result
           /\ cliArg' = r.objs
           /\ args' = r.args
           /\ visited' = r.visited
    /\ argv' = av
    /\ calls' = calls + 1
    /\ prev' = IF pc = "returned"
               THEN [argv |-> argv, ret |-> ret, result |-> result,
                     values |-> Values(result, cliArg), made |-> TRUE]
               ELSE NoCall
    /\ pc' = "returned"
    /\ UNCHANGED <<cliSub, subcommands, topArgs>>

\* the caller is done with the results it holds: ~CliParserResult
Release ==
    /\ pc = "returned"
    /\ pc' = "idle"
    /\ argv' = <<>>
    /\ ret' = FALSE
    /\ result' = CliParserResult
    /\ visited' = <<>>
    /\ prev' = NoCall
    /\ UNCHANGED <<cliArg, cliSub, subcommands, args, topArgs, calls>>

Next ==
    \/ \E a \in ArgIds : AddArg(a)
    \/ \E s \in SubIds, a \in ArgIds : SubAddArg(s, a)
    \/ \E s \in SubIds : AddSubcommand(s)
    \/ \E av \in CommandLines : Parse(av)
    \/ Release

Spec == Init /\ [][Next]_vars

TypeOK ==
    /\ calls \in 0..MaxCalls
    /\ argv \in CommandLines
    /\ ret \in BOOLEAN
    /\ pc \in {"idle", "returned"}
    /\ \A k \in 1..Len(result.args) : result.args[k] \in ArgIds

(***************************************************************************)
(* Vocabulary of the properties, stated on what the caller observes.       *)
(***************************************************************************)

Returned == pc = "returned"

\* the first word of the last command line names a registered subcommand
SubStyle ==
    /\ argv # <<>>
    /\ \E k \in 1..Len(subcommands) : cliSub[subcommands[k]].name = argv[1]

FlatStyle == argv # <<>> /\ ~SubStyle

TheSub == CHOOSE s \in SubIds :
              /\ \E k \in 1..Len(subcommands) : subcommands[k] = s
              /\ cliSub[s].name = argv[1]

\* the words after an optional leading subcommand word
Scanned == IF SubStyle THEN Tail(argv) ELSE argv

\* the word at the 0-based position p of the scanned words
Tok(p) == Scanned[p + 1]

FollowedByValue(p) == p + 2 <= Len(Scanned) /\ ~StartsWithDash(Scanned[p + 2])

\* the spec of a scope that carries a name (names are unique within a scope)
InScope(scope, name) == \E k \in 1..Len(scope) : cliArg[scope[k]].name = name
SpecOf(scope, name) == scope[CHOOSE k \in 1..Len(scope) : cliArg[scope[k]].name = name]

\* the scope the spec prescribes for the last call
ActiveScope == IF SubStyle THEN cliSub[TheSub].args ELSE topArgs

Range(seq) == { seq[k] : k \in 1..Len(seq) }
Last(seq) == seq[Len(seq)]

Msg(pre, name, post) == [pre |-> pre, name |-> name, post |-> post]

\* the 1-based positions of the scanned words that start with '-', in order
RECURSIVE FlagPositions(_, _)
FlagPositions(words, k) ==
    IF k > Len(words) THEN <<>>
    ELSE IF StartsWithDash(words[k]) THEN <<k>> \o FlagPositions(words, k + 1)
    ELSE FlagPositions(words, k + 1)

(***************************************************************************)
(* C1: a call whose first word is not a registered subcommand name         *)
(* resolves flag names against the registered top-level arguments, also    *)
(* after an earlier call on the same parser selected a subcommand: its     *)
(* outcome is the one a scan against the registered top-level arguments    *)
(* gives.                                                                  *)
(***************************************************************************)
C1_FlatResolvesTopLevel ==
    (Returned /\ FlatStyle) =>
        LET r == processArguments(topArgs, argv, cliArg, CliParserResult)
        IN  ret = r.ret /\ result = r.result

(***************************************************************************)
(* C2: when the first word is a registered subcommand name, the result     *)
(* refers to that subcommand, only the words after it are scanned, and     *)
(* flag names resolve only against that subcommand's own arguments: every  *)
(* matched spec is one of them, and a flag whose name they do not carry is *)
(* an unknown argument even if it is registered at top level.  A result    *)
(* whose first word is not a subcommand name has no subcommand reference.  *)
(***************************************************************************)
C2_SubcommandScope ==
    /\ (Returned /\ SubStyle) =>
          /\ result.subcommand = TheSub
          /\ \A k \in 1..Len(visited) : visited[k] \in 0..(Len(argv) - 2)
          /\ (Len(argv) > 1) => (visited # <<>> /\ visited[1] = 0)
          /\ (Len(argv) = 1) => visited = <<>>
          /\ \A k \in 1..Len(result.args) : result.args[k] \in Range(cliSub[TheSub].args)
          /\ (/\ visited # <<>>
              /\ StartsWithDash(Tok(Last(visited)))
              /\ ~InScope(cliSub[TheSub].args, Tail(Tok(Last(visited)))))
             => (/\ ~ret
                 /\ result.errorMessage = Msg("Unkown argument ", Tail(Tok(Last(visited))), ""))
    /\ (Returned /\ ~SubStyle) => result.subcommand = nullptr

\* a subcommand-style call met a flag that is registered at top level only
C2_Witness ==
    /\ Returned /\ SubStyle
    /\ result.subcommand = TheSub
    /\ visited # <<>>
    /\ StartsWithDash(Tok(Last(visited)))
    /\ InScope(topArgs, Tail(Tok(Last(visited))))
    /\ ~InScope(cliSub[TheSub].args, Tail(Tok(Last(visited))))
    /\ result.errorMessage.pre = "Unkown argument "
    /\ Len(result.args) > 0

(***************************************************************************)
(* C3: idempotence.  A second call with the same command line, no          *)
(* registration in between and a newly constructed result returns the same *)
(* value and yields the same subcommand reference, the same matched specs, *)
(* the same recorded values and the same error message as the first.       *)
(***************************************************************************)
C3_Idempotent ==
    prev.made =>
        /\ prev.argv = argv
        /\ prev.ret = ret
        /\ prev.result.subcommand = result.subcommand
        /\ prev.result.args = result.args
        /\ prev.values = Values(result, cliArg)
        /\ prev.result.errorMessage = result.errorMessage

\* a subcommand-style command line with a value was parsed twice on a parser
\* whose top-level arguments differ from the subcommand's
C3_Witness ==
    /\ prev.made
    /\ ret
    /\ result.subcommand # nullptr
    /\ topArgs # <<>>
    /\ Range(topArgs) \cap Range(cliSub[result.subcommand].args) = {}
    /\ \E k \in 1..Len(result.args) : cliArg[result.args[k]].param = <<"s">>

(***************************************************************************)
(* C4: given a newly constructed result, parse returns false exactly when  *)
(* the result's error message is not empty after the call.                 *)
(***************************************************************************)
C4_FalseIffMessage ==
    Returned => (~ret <=> ~IsEmpty(result.errorMessage))

\* a failed call and its message
C4_Witness ==
    /\ Returned
    /\ ~ret
    /\ result.errorMessage = Msg("Missing required argument: ", <<"v">>, "")

\* the scan of the last call stopped on an error at the last position it reached
ScanError ==
    /\ visited # <<>>
    /\ LET p == Last(visited)
       IN  \/ ~StartsWithDash(Tok(p))
           \/ ~InScope(ActiveScope, Tail(Tok(p)))
           \/ cliArg[SpecOf(ActiveScope, Tail(Tok(p)))].hasParam # FollowedByValue(p)

\* the required specs of the active scope that were not matched, in declaration order
MissingRequired ==
    SelectSeq(ActiveScope, LAMBDA a : cliArg[a].required /\ a \notin Range(result.args))

(***************************************************************************)
(* C5: in the first call on a newly set-up parser, if the scan completes   *)
(* without error, parse succeeds exactly when every required spec of the   *)
(* active scope (the matched subcommand's arguments, else the top-level    *)
(* arguments) is among the matched specs, and otherwise fails with         *)
(* "Missing required argument: <name>" for the first missing one in        *)
(* declaration order; required specs outside the active scope play no      *)
(* part.  A scan error is reported instead of a missing-required error.    *)
(***************************************************************************)
C5_RequiredCheck ==
    (Returned /\ calls = 1 /\ argv # <<>>) =>
        /\ ~ScanError =>
              /\ ret <=> (MissingRequired = <<>>)
              /\ ~ret => result.errorMessage =
                            Msg("Missing required argument: ", cliArg[MissingRequired[1]].name, "")
        /\ ScanError =>
              /\ ~ret
              /\ result.errorMessage.pre # "Missing required argument: "

\* two required specs of the active scope are missing, declared in the order
\* v, o, while a required spec outside the active scope is ignored
C5_Witness ==
    /\ Returned /\ calls = 1 /\ argv # <<>>
    /\ ~ScanError
    /\ SubStyle
    /\ Len(MissingRequired) = 2
    /\ cliArg[MissingRequired[1]].name = <<"v">>
    /\ result.errorMessage = Msg("Missing required argument: ", <<"v">>, "")
    /\ \E k \in 1..Len(topArgs) : topArgs[k] \notin Range(ActiveScope) /\ cliArg[topArgs[k]].required

(***************************************************************************)
(* C6: on every successful parse the matched-arguments sequence has one    *)
(* entry per flag word of the scanned words, in command-line order (a flag *)
(* given twice appears twice); each value-bearing matched spec carries the *)
(* word that follows its last occurrence; the words the scan stopped at    *)
(* are exactly the flag words, so value words are never scanned as flags.  *)
(* With v (no value) and o (value) registered at top level, the command    *)
(* line -v -o s succeeds and matches v, then o with value s.               *)
(***************************************************************************)
C6_EncounterOrder ==
    /\ (Returned /\ ret) =>
          LET fp == FlagPositions(Scanned, 1)
          IN  /\ Len(result.args) = Len(fp)
              /\ visited = [k \in 1..Len(fp) |-> fp[k] - 1]
              /\ \A k \in 1..Len(fp) :
                    /\ cliArg[result.args[k]].name = Tail(Scanned[fp[k]])
                    /\ cliArg[result.args[k]].hasParam =>
                          /\ fp[k] < Len(Scanned)
                          /\ ~StartsWithDash(Scanned[fp[k] + 1])
                          /\ (\A j \in (k + 1)..Len(fp) : result.args[j] # result.args[k])
                                => cliArg[result.args[k]].param = Scanned[fp[k] + 1]
    /\ (/\ Returned /\ calls = 1 /\ FlatStyle
        /\ argv = << <<"-", "v">>, <<"-", "o">>, <<"s">> >>
        /\ Range(topArgs) = {1, 2})
       => (/\ ret
           /\ result.args = <<2, 1>>
           /\ cliArg[1].param = <<"s">>)

\* the command line -o s -v succeeded with o declared after v: the order is
\* the command line's, not the declaration's
C6_Witness ==
    /\ Returned /\ ret
    /\ argv = << <<"-", "o">>, <<"s">>, <<"-", "v">> >>
    /\ topArgs = <<2, 1>>
    /\ result.args = <<1, 2>>
    /\ cliArg[1].param = <<"s">>

\* the scan of the last call reached a flag word whose spec takes a value, and
\* that word is the last one or is followed by a word starting with '-'
C7_Case ==
    /\ Returned
    /\ visited # <<>>
    /\ LET p == Last(visited)
       IN  /\ StartsWithDash(Tok(p))
           /\ InScope(args, Tail(Tok(p)))
           /\ cliArg[SpecOf(args, Tail(Tok(p)))].hasParam
           /\ ~FollowedByValue(p)

\* the positions before the last one the scan reached where spec a got a value
ValuedBefore(a) ==
    { k \in 1..(Len(visited) - 1) :
        /\ InScope(args, Tail(Tok(visited[k])))
        /\ SpecOf(args, Tail(Tok(visited[k]))) = a }

\* the name and the spec of the flag word the scan of the last call stopped at
C7_Name == Tail(Tok(Last(visited)))
C7_Spec == SpecOf(args, C7_Name)

\* the earlier positions of this call where that spec got a value, and the
\* value it got at the last of them
C7_Earlier == ValuedBefore(C7_Spec)
C7_EarlierValue ==
    LET k == CHOOSE m \in C7_Earlier : \A n \in C7_Earlier : n <= m
    IN  Scanned[visited[k] + 2]

(***************************************************************************)
(* C7: when the scan reaches a flag word whose spec in the scope the       *)
(* parser resolves names in takes a value, and that word is the last word  *)
(* or is followed by a word starting with '-', parse fails with "Argument  *)
(* <name> must have a parameter"; the spec is not appended for this word   *)
(* (the matched sequence has one entry per word reached before it) and the *)
(* spec's value is the one it had before this word was reached.            *)
(***************************************************************************)
C7_ValueFlagWithoutValue ==
    [][(calls' = calls + 1 /\ C7_Case') =>
          /\ ~ret'
          /\ result'.errorMessage = Msg("Argument ", C7_Name', " must have a parameter")
          /\ Len(result'.args) = Len(visited') - 1
          /\ \A a \in ArgIds :
                a = C7_Spec' =>
                   cliArg'[a].param = IF C7_Earlier' = {} THEN cliArg[a].param
                                      ELSE C7_EarlierValue'
      ]_vars

\* -o (value-bearing) directly followed by another flag word, its value from
\* an earlier call still in place
C7_Witness ==
    /\ C7_Case
    /\ Last(visited) + 1 < Len(Scanned)
    /\ StartsWithDash(Tok(Last(visited) + 1))
    /\ cliArg[SpecOf(args, Tail(Tok(Last(visited))))].param = <<"s">>
    /\ result.errorMessage.post = " must have a parameter"

\* the scan of the last call reached a flag word that is followed by a word not
\* starting with '-' and whose spec takes no value
C8_Case ==
    /\ Returned
    /\ visited # <<>>
    /\ LET p == Last(visited)
       IN  /\ StartsWithDash(Tok(p))
           /\ InScope(args, Tail(Tok(p)))
           /\ ~cliArg[SpecOf(args, Tail(Tok(p)))].hasParam
           /\ FollowedByValue(p)

(***************************************************************************)
(* C8 as stated: a no-value flag followed by a word not starting with '-'  *)
(* fails with "Argument <name> must have a parameter", the message of a    *)
(* value-bearing flag given without a value.                               *)
(***************************************************************************)
C8_Original ==
    C8_Case =>
        /\ ~ret
        /\ result.errorMessage = Msg("Argument ", Tail(Tok(Last(visited))), " must have a parameter")
        /\ Len(result.args) = Len(visited) - 1

(***************************************************************************)
(* C8 as amended: a no-value flag followed by a word not starting with '-' *)
(* fails with "Argument <name> can not have a parameter", which is not the *)
(* message of a value-bearing flag given without a value, and nothing is   *)
(* appended to the matched-arguments sequence for that word.               *)
(***************************************************************************)
C8_NoValueFlagWithValue ==
    C8_Case =>
        /\ ~ret
        /\ result.errorMessage = Msg("Argument ", Tail(Tok(Last(visited))), " can not have a parameter")
        /\ result.errorMessage # Msg("Argument ", Tail(Tok(Last(visited))), " must have a parameter")
        /\ Len(result.args) = Len(visited) - 1

\* -v (no value) followed by a plain word, after an earlier flag was matched
C8_Witness ==
    /\ C8_Case
    /\ Tail(Tok(Last(visited))) = <<"v">>
    /\ Len(result.args) = 1
    /\ result.errorMessage.post = " can not have a parameter"

\* a word that no flag can consume as its value: it does not start with '-' and
\* is not directly preceded by a word that does
Unconsumable(k) ==
    /\ ~StartsWithDash(Scanned[k])
    /\ (k = 1 \/ ~StartsWithDash(Scanned[k - 1]))

(***************************************************************************)
(* C9: there are no positional arguments.  When the scan position is at a  *)
(* word that does not start with '-', parse fails with "Weird input"       *)
(* whatever is registered; the scan starts at the first word after an      *)
(* optional subcommand word, so a first such word that is a plain word, an *)
(* empty word or a subcommand name is "Weird input", and a command line    *)
(* with a plain word that no flag can take as its value never succeeds.    *)
(***************************************************************************)
C9_NoPositionals ==
    Returned =>
        /\ (visited # <<>> /\ ~StartsWithDash(Tok(Last(visited)))) =>
              (~ret /\ result.errorMessage = Literal("Weird input"))
        /\ (Scanned # <<>> /\ ~StartsWithDash(Scanned[1])) =>
              (~ret /\ result.errorMessage = Literal("Weird input") /\ visited = <<0>>)
        /\ (\E k \in 1..Len(Scanned) : Unconsumable(k)) => ~ret

\* the subcommand's name as the third word, after a flag and its value
C9_Witness ==
    /\ Returned
    /\ argv = << <<"-", "o">>, <<"s">>, <<"s">> >>
    /\ SubIds \subseteq Range(subcommands)
    /\ visited = <<0, 2>>
    /\ result.args = <<1>>
    /\ result.errorMessage = Literal("Weird input")

(***************************************************************************)
(* C10: a parse call changes no field of any CliArg except the value of    *)
(* the specs it matched together with a value in that call, also when the  *)
(* call fails later; every other spec keeps the value an earlier parse     *)
(* recorded, although the new result's lookup does not find it.            *)
(***************************************************************************)
C10_Frame ==
    [][\A a \in ArgIds :
          /\ cliArg'[a].name = cliArg[a].name
          /\ cliArg'[a].description = cliArg[a].description
          /\ cliArg'[a].hasParam = cliArg[a].hasParam
          /\ cliArg'[a].required = cliArg[a].required
          /\ (cliArg'[a].param # cliArg[a].param) =>
                (/\ calls' = calls + 1
                 /\ cliArg[a].hasParam
                 /\ a \in Range(result'.args))
      ]_vars

\* a successful call that does not mention o, while o still holds the value s
\* of an earlier call
C10_Witness ==
    /\ Returned /\ ret
    /\ calls >= 2
    /\ cliArg[1].param = <<"s">>
    /\ resultGetArgument(result, cliArg, <<"o">>) = nullptr
    /\ result.args # <<>>
====
